---- MODULE Spec2Model ----
(***************************************************************************)
(* A model of the dq1-password crate: the codec between a GameState and    *)
(* the 20-symbol "password" (encode / decode), the normalizers and         *)
(* validators, and the pattern enumerator (generate).                      *)
(*                                                                         *)
(* Characters are modelled by their Unicode code points, strings by        *)
(* sequences of code points, u8 / u16 values by naturals kept at their     *)
(* width, Result<T, Dq1PasswordError> by records with a `kind` field       *)
(* ("Ok" or the error kind); diagnostic message texts are not modelled.    *)
(***************************************************************************)
EXTENDS Integers, Sequences, FiniteSets, TLC

(***************************************************************************)
(* Machine arithmetic.                                                     *)
(***************************************************************************)
\* one bit position of a bitwise operation given by its truth table
\* << f(0,0), f(0,1), f(1,0), f(1,1) >>
RECURSIVE BitOp(_, _, _)
BitOp(tt, a, b) ==
    IF a = 0 /\ b = 0 THEN 0
    ELSE tt[2 * (a % 2) + (b % 2) + 1] + 2 * BitOp(tt, a \div 2, b \div 2)

\* the operation on two 4-bit values, tabulated once
NIBBLE_XOR == [a \in 0..15 |-> [b \in 0..15 |-> BitOp(<<0, 1, 1, 0>>, a, b)]]

NIBBLE_AND == [a \in 0..15 |-> [b \in 0..15 |-> BitOp(<<0, 0, 0, 1>>, a, b)]]

NIBBLE_OR == [a \in 0..15 |-> [b \in 0..15 |-> BitOp(<<0, 1, 1, 1>>, a, b)]]

RECURSIVE ByNibbles(_, _, _)
ByNibbles(table, a, b) ==
    IF a < 16 /\ b < 16 THEN table[a][b]
    ELSE table[a % 16][b % 16] + 16 * ByNibbles(table, a \div 16, b \div 16)

\* ^, &, | on unsigned integers
BitXor(a, b) == ByNibbles(NIBBLE_XOR, a, b)

\* a & (2^n - 1) keeps the low n bits, which is a % 2^n
LOW_MASKS == {1, 3, 7, 15, 63, 255}

BitAnd(a, b) ==
    IF b \in LOW_MASKS THEN a % (b + 1) ELSE ByNibbles(NIBBLE_AND, a, b)

BitOr(a, b) == ByNibbles(NIBBLE_OR, a, b)

Shl8(x, n) == (x * (2 ^ n)) % 256

Shl16(x, n) == (x * (2 ^ n)) % 65536

Shr(x, n) == x \div (2 ^ n)

\* u8 wrapping_sub
WrappingSub8(a, b) == (a - b) % 256

\* Option<u8>::None
None == -1

(***************************************************************************)
(* crc.rs                                                                  *)
(***************************************************************************)
CRC_POLY == 4129

RECURSIVE crc_loop(_, _, _)
\* the while loop of crc_update: carry is taken before the shift
crc_loop(crc, i, n_bits) ==
    IF i >= n_bits THEN crc
    ELSE IF BitAnd(crc, 32768) # 0
         THEN crc_loop(BitXor(Shl16(crc, 1), CRC_POLY), i + 1, n_bits)
         ELSE crc_loop(Shl16(crc, 1), i + 1, n_bits)

\* a variant of crc_update that always aligns data as a whole byte
crc_update_byte_aligned(crc_pre, data, n_bits) ==
    crc_loop(BitXor(crc_pre, Shl16(data, 8)), 0, n_bits)

crc_update(crc_pre, data, n_bits) ==
    crc_loop(BitXor(crc_pre, Shl16(data, 16 - n_bits)), 0, n_bits)

RECURSIVE crc_fold(_, _)
RECURSIVE crc_fold_all_but_last(_, _)
\* a variant of the fold that leaves out the n-th element
crc_fold_all_but_last(slice, n) ==
    IF n <= 1 THEN 0
    ELSE LET crc_pre == crc_fold_all_but_last(slice, n - 1)
         IN  IF crc_pre \in 0..65535
             THEN crc_update(crc_pre, slice[n - 1], 8)
             ELSE 0

\* slice.iter().fold(0, |crc, &b| crc_update(crc, b, 8)) over the first n
\* elements of the slice
crc_fold(slice, n) ==
    IF n = 0 THEN 0
    ELSE LET crc_pre == crc_fold(slice, n - 1)
         IN  IF crc_pre \in 0..65535   \* a u16, computed before the update
             THEN crc_update(crc_pre, slice[n], 8)
             ELSE 0

(***************************************************************************)
(* Alphabets (encode.rs, decode.rs, normalize.rs).                         *)
(***************************************************************************)
PACK_HERO_NAME_MAP ==
    (48 :> 0) @@ (49 :> 1) @@ (50 :> 2) @@ (51 :> 3) @@
    (52 :> 4) @@ (53 :> 5) @@ (54 :> 6) @@ (55 :> 7) @@
    (56 :> 8) @@ (57 :> 9) @@ (12354 :> 10) @@ (12356 :> 11) @@
    (12358 :> 12) @@ (12360 :> 13) @@ (12362 :> 14) @@ (12363 :> 15) @@
    (12365 :> 16) @@ (12367 :> 17) @@ (12369 :> 18) @@ (12371 :> 19) @@
    (12373 :> 20) @@ (12375 :> 21) @@ (12377 :> 22) @@ (12379 :> 23) @@
    (12381 :> 24) @@ (12383 :> 25) @@ (12385 :> 26) @@ (12388 :> 27) @@
    (12390 :> 28) @@ (12392 :> 29) @@ (12394 :> 30) @@ (12395 :> 31) @@
    (12396 :> 32) @@ (12397 :> 33) @@ (12398 :> 34) @@ (12399 :> 35) @@
    (12402 :> 36) @@ (12405 :> 37) @@ (12408 :> 38) @@ (12411 :> 39) @@
    (12414 :> 40) @@ (12415 :> 41) @@ (12416 :> 42) @@ (12417 :> 43) @@
    (12418 :> 44) @@ (12420 :> 45) @@ (12422 :> 46) @@ (12424 :> 47) @@
    (12425 :> 48) @@ (12426 :> 49) @@ (12427 :> 50) @@ (12428 :> 51) @@
    (12429 :> 52) @@ (12431 :> 53) @@ (12434 :> 54) @@ (12435 :> 55) @@
    (12387 :> 56) @@ (12419 :> 57) @@ (12421 :> 58) @@ (12423 :> 59) @@
    (12443 :> 60) @@ (12444 :> 61) @@ (45 :> 62) @@ (32 :> 63)

PASSWORD_CHARS ==
    << 12354, 12356, 12358, 12360, 12362, 12363, 12365, 12367,
       12369, 12371, 12373, 12375, 12377, 12379, 12381, 12383,
       12385, 12388, 12390, 12392, 12394, 12395, 12396, 12397,
       12398, 12399, 12402, 12405, 12408, 12411, 12414, 12415,
       12416, 12417, 12418, 12420, 12422, 12424, 12425, 12426,
       12427, 12428, 12429, 12431, 12364, 12366, 12368, 12370,
       12372, 12374, 12376, 12378, 12380, 12382, 12384, 12386,
       12389, 12391, 12393, 12400, 12403, 12406, 12409, 12412 >>

PASSWORD_CHAR_MAP ==
    (12354 :> 0) @@ (12356 :> 1) @@ (12358 :> 2) @@ (12360 :> 3) @@
    (12362 :> 4) @@ (12363 :> 5) @@ (12365 :> 6) @@ (12367 :> 7) @@
    (12369 :> 8) @@ (12371 :> 9) @@ (12373 :> 10) @@ (12375 :> 11) @@
    (12377 :> 12) @@ (12379 :> 13) @@ (12381 :> 14) @@ (12383 :> 15) @@
    (12385 :> 16) @@ (12388 :> 17) @@ (12390 :> 18) @@ (12392 :> 19) @@
    (12394 :> 20) @@ (12395 :> 21) @@ (12396 :> 22) @@ (12397 :> 23) @@
    (12398 :> 24) @@ (12399 :> 25) @@ (12402 :> 26) @@ (12405 :> 27) @@
    (12408 :> 28) @@ (12411 :> 29) @@ (12414 :> 30) @@ (12415 :> 31) @@
    (12416 :> 32) @@ (12417 :> 33) @@ (12418 :> 34) @@ (12420 :> 35) @@
    (12422 :> 36) @@ (12424 :> 37) @@ (12425 :> 38) @@ (12426 :> 39) @@
    (12427 :> 40) @@ (12428 :> 41) @@ (12429 :> 42) @@ (12431 :> 43) @@
    (12364 :> 44) @@ (12366 :> 45) @@ (12368 :> 46) @@ (12370 :> 47) @@
    (12372 :> 48) @@ (12374 :> 49) @@ (12376 :> 50) @@ (12378 :> 51) @@
    (12380 :> 52) @@ (12382 :> 53) @@ (12384 :> 54) @@ (12386 :> 55) @@
    (12389 :> 56) @@ (12391 :> 57) @@ (12393 :> 58) @@ (12400 :> 59) @@
    (12403 :> 60) @@ (12406 :> 61) @@ (12409 :> 62) @@ (12412 :> 63)

HERO_NAME_CHARS ==
    << 48, 49, 50, 51, 52, 53, 54, 55,
       56, 57, 12354, 12356, 12358, 12360, 12362, 12363,
       12365, 12367, 12369, 12371, 12373, 12375, 12377, 12379,
       12381, 12383, 12385, 12388, 12390, 12392, 12394, 12395,
       12396, 12397, 12398, 12399, 12402, 12405, 12408, 12411,
       12414, 12415, 12416, 12417, 12418, 12420, 12422, 12424,
       12425, 12426, 12427, 12428, 12429, 12431, 12434, 12435,
       12387, 12419, 12421, 12423, 12443, 12444, 45, 32 >>

NORMALIZE_HERO_NAME_MAP ==
    (65296 :> <<48>>) @@ (65297 :> <<49>>) @@ (65298 :> <<50>>) @@ (65299 :> <<51>>) @@
    (65300 :> <<52>>) @@ (65301 :> <<53>>) @@ (65302 :> <<54>>) @@ (65303 :> <<55>>) @@
    (65304 :> <<56>>) @@ (65305 :> <<57>>) @@ (12364 :> <<12363, 12443>>) @@ (12366 :> <<12365, 12443>>) @@
    (12368 :> <<12367, 12443>>) @@ (12370 :> <<12369, 12443>>) @@ (12372 :> <<12371, 12443>>) @@ (12374 :> <<12373, 12443>>) @@
    (12376 :> <<12375, 12443>>) @@ (12378 :> <<12377, 12443>>) @@ (12380 :> <<12379, 12443>>) @@ (12382 :> <<12381, 12443>>) @@
    (12384 :> <<12383, 12443>>) @@ (12386 :> <<12385, 12443>>) @@ (12389 :> <<12388, 12443>>) @@ (12391 :> <<12390, 12443>>) @@
    (12393 :> <<12392, 12443>>) @@ (12400 :> <<12399, 12443>>) @@ (12403 :> <<12402, 12443>>) @@ (12406 :> <<12405, 12443>>) @@
    (12409 :> <<12408, 12443>>) @@ (12412 :> <<12411, 12443>>) @@ (12401 :> <<12399, 12444>>) @@ (12404 :> <<12402, 12444>>) @@
    (12407 :> <<12405, 12444>>) @@ (12410 :> <<12408, 12444>>) @@ (12413 :> <<12411, 12444>>) @@ (12436 :> <<12358, 12443>>) @@
    (12441 :> <<12443>>) @@ (12442 :> <<12444>>) @@ (8208 :> <<45>>) @@ (8209 :> <<45>>) @@
    (8210 :> <<45>>) @@ (8211 :> <<45>>) @@ (8212 :> <<45>>) @@ (8213 :> <<45>>) @@
    (8722 :> <<45>>) @@ (12540 :> <<45>>) @@ (65392 :> <<45>>) @@ (12288 :> <<32>>)


(***************************************************************************)
(* Result values (error.rs).                                               *)
(***************************************************************************)
Ok(v) == [kind |-> "Ok", val |-> v]

invalid_game_state == [kind |-> "InvalidGameState"]

invalid_password == [kind |-> "InvalidPassword"]

crc_mismatch(expect, actual) ==
    [kind |-> "CrcMismatch", expect |-> expect, actual |-> actual]

invalid_pattern == [kind |-> "InvalidPattern"]

\* a panic (failed assertion / unwrap) is an outcome outside Result
Panic == [kind |-> "Panic"]

IsOk(r) == r.kind = "Ok"

(***************************************************************************)
(* Small helpers for Rust iterator idioms.                                 *)
(***************************************************************************)
Min(a, b) == IF a < b THEN a ELSE b

\* Iterator::take(n).collect()
Take(s, n) == SubSeq(s, 1, Min(n, Len(s)))

\* u8::from(bool)
U8FromBool(b) == IF b THEN 1 ELSE 0

\* Rust's 0-based indexing of a slice held as a TLA+ sequence
At(s, idx) == s[idx + 1]

(***************************************************************************)
(* validate.rs : field validators                                          *)
(***************************************************************************)
WEAPON_MAX == 7

ARMOR_MAX == 7

SHIELD_MAX == 3

HERB_MAX == 6

KEY_MAX == 6

TOOL_MAX == 14

SALT_MAX == 7

validate_hero_weapon(weapon) ==
    IF weapon > WEAPON_MAX THEN invalid_game_state ELSE Ok(<<>>)

validate_hero_armor(armor) ==
    IF armor > ARMOR_MAX THEN invalid_game_state ELSE Ok(<<>>)

\* a variant of validate_hero_shield that lets one more value pass
validate_hero_shield_loose(shield) ==
    IF shield > SHIELD_MAX + 1 THEN invalid_game_state ELSE Ok(<<>>)

validate_hero_shield(shield) ==
    IF shield > SHIELD_MAX THEN invalid_game_state ELSE Ok(<<>>)

validate_herb_count(herb) ==
    IF herb > HERB_MAX THEN invalid_game_state ELSE Ok(<<>>)

\* a variant of validate_key_count: the bound itself is rejected
validate_key_count_strict(key) ==
    IF key >= KEY_MAX THEN invalid_game_state ELSE Ok(<<>>)

validate_key_count(key) ==
    IF key > KEY_MAX THEN invalid_game_state ELSE Ok(<<>>)

validate_tool(tool) ==
    IF tool > TOOL_MAX THEN invalid_game_state ELSE Ok(<<>>)

\* a variant of validate_inventory without its length assertion
validate_inventory_any_length(inventory) ==
    IF \E i \in 1..Len(inventory) : ~IsOk(validate_tool(inventory[i]))
    THEN invalid_game_state
    ELSE Ok(<<>>)

validate_inventory(inventory) ==
    IF Len(inventory) # 8 THEN Panic
    ELSE IF \E i \in 1..Len(inventory) : ~IsOk(validate_tool(inventory[i]))
         THEN invalid_game_state
         ELSE Ok(<<>>)

validate_salt(salt) ==
    IF salt > SALT_MAX THEN invalid_game_state ELSE Ok(<<>>)

(***************************************************************************)
(* encode.rs / decode.rs : character tables                                *)
(***************************************************************************)
pack_hero_name_char(c) ==
    IF c \in DOMAIN PACK_HERO_NAME_MAP THEN PACK_HERO_NAME_MAP[c] ELSE None

cum_to_password_char(cum) == At(PASSWORD_CHARS, cum)

password_char_to_cum(c) ==
    IF c \in DOMAIN PASSWORD_CHAR_MAP THEN PASSWORD_CHAR_MAP[c] ELSE None

\* a variant of unpack_hero_name_char: table read one entry off
unpack_hero_name_char_off(b) == At(HERO_NAME_CHARS, (b + 1) % 64)

unpack_hero_name_char(b) == At(HERO_NAME_CHARS, b)

unpack_hero_name(packed) == [i \in 1..4 |-> unpack_hero_name_char(packed[i])]

\* zip(&mut packed, chars): positions beyond the name keep the initial 0
pack_hero_name(hero_name) ==
    [i \in 1..4 |-> IF i <= Len(hero_name)
                    THEN pack_hero_name_char(hero_name[i])
                    ELSE 0]

(***************************************************************************)
(* normalize.rs                                                            *)
(***************************************************************************)
\* char::is_whitespace : the Unicode White_Space code points
WHITESPACE ==
    (9..13) \cup {32, 133, 160, 5760} \cup (8192..8202)
        \cup {8232, 8233, 8239, 8287, 12288}

is_whitespace(c) == c \in WHITESPACE

QUESTION == 63

FULLWIDTH_QUESTION == 65311

\* a variant of normalize_hero_name_char that expands nothing
normalize_hero_name_char_plain(c) == <<c>>

normalize_hero_name_char(c) ==
    IF c \in DOMAIN NORMALIZE_HERO_NAME_MAP
    THEN NORMALIZE_HERO_NAME_MAP[c]
    ELSE <<c>>

\* a variant of normalize_password_char that keeps the ASCII space
normalize_password_char_keep_space(c) ==
    IF is_whitespace(c) /\ c # 32 THEN <<>> ELSE <<c>>

normalize_password_char(c) == IF is_whitespace(c) THEN <<>> ELSE <<c>>

normalize_pattern_char(c) ==
    IF c = FULLWIDTH_QUESTION THEN <<QUESTION>>
    ELSE IF is_whitespace(c) THEN <<>>
    ELSE <<c>>

RECURSIVE FlatMap(_, _, _)
\* chars().flat_map(f) from position i on; f is given as a 1-argument operator
FlatMap(f(_), s, i) ==
    IF i > Len(s) THEN <<>> ELSE f(s[i]) \o FlatMap(f, s, i + 1)

normalize_hero_name(hero_name) ==
    LET cs == Take(FlatMap(normalize_hero_name_char, hero_name, 1), 4 + 1)
    IN  IF Len(cs) > 4 THEN invalid_game_state
        ELSE IF \E i \in 1..Len(cs) : pack_hero_name_char(cs[i]) = None
             THEN invalid_game_state
             ELSE Ok(Take(cs \o <<32, 32, 32, 32>>, 4))

normalize_password(password) ==
    LET cs == Take(FlatMap(normalize_password_char, password, 1), 20 + 1)
    IN  IF Len(cs) # 20 THEN invalid_password
        ELSE IF \E i \in 1..Len(cs) : password_char_to_cum(cs[i]) = None
             THEN invalid_password
             ELSE Ok(cs)

normalize_pattern(pattern) ==
    LET cs == Take(FlatMap(normalize_pattern_char, pattern, 1), 20 + 1)
    IN  IF Len(cs) # 20 THEN invalid_pattern
        ELSE IF \E i \in 1..Len(cs) :
                   password_char_to_cum(cs[i]) = None /\ cs[i] # QUESTION
             THEN invalid_password
             ELSE Ok(cs)

validate_hero_name(hero_name) ==
    LET r == normalize_hero_name(hero_name)
    IN  IF IsOk(r) THEN Ok(<<>>) ELSE r

validate_password(password) ==
    LET r == normalize_password(password)
    IN  IF IsOk(r) THEN Ok(<<>>) ELSE r

validate_pattern(pattern) ==
    LET r == normalize_pattern(pattern)
    IN  IF IsOk(r) THEN Ok(<<>>) ELSE r

(***************************************************************************)
(* game_state.rs                                                           *)
(***************************************************************************)
GameState_validate(self) ==
    LET r1 == validate_hero_name(self.hero_name)
        r2 == validate_hero_weapon(self.hero_weapon)
        r3 == validate_hero_armor(self.hero_armor)
        r4 == validate_hero_shield(self.hero_shield)
        r5 == validate_herb_count(self.herb_count)
        r6 == validate_key_count(self.key_count)
        r7 == validate_inventory(self.inventory)
        r8 == validate_salt(self.salt)
    IN  IF ~IsOk(r1) THEN r1
        ELSE IF ~IsOk(r2) THEN r2
        ELSE IF ~IsOk(r3) THEN r3
        ELSE IF ~IsOk(r4) THEN r4
        ELSE IF ~IsOk(r5) THEN r5
        ELSE IF ~IsOk(r6) THEN r6
        ELSE IF ~IsOk(r7) THEN r7
        ELSE IF ~IsOk(r8) THEN r8
        ELSE Ok(<<>>)

GameState_normalize(self) ==
    LET hero_name == normalize_hero_name(self.hero_name)
    IN  IF ~IsOk(hero_name) THEN hero_name
        ELSE Ok([self EXCEPT !.hero_name = hero_name.val])

(***************************************************************************)
(* encode.rs                                                               *)
(***************************************************************************)
u16_lo(x) == BitAnd(x, 255)

\* a variant of u16_hi: the high byte taken one bit too low
u16_hi_shift7(x) == Shr(x, 7)

u16_hi(x) == Shr(x, 8)

bit_test(x, idx) == BitAnd(x, Shl8(1, idx)) # 0

state_to_bytes(state) ==
    LET hero_name_packed == pack_hero_name(state.hero_name)
        b1  == u16_lo(state.hero_xp)
        b2  == BitOr(BitOr(At(hero_name_packed, 2),
                           Shl8(U8FromBool(state.flag_got_death_necklace), 6)),
                     Shl8(U8FromBool(bit_test(state.salt, 1)), 7))
        b3  == BitOr(At(state.inventory, 2), Shl8(At(state.inventory, 3), 4))
        b4  == u16_lo(state.purse)
        b5  == BitOr(BitOr(U8FromBool(bit_test(state.salt, 0)),
                           Shl8(U8FromBool(state.flag_beated_golem), 1)),
                     Shl8(At(hero_name_packed, 0), 2))
        b6  == BitOr(At(state.inventory, 6), Shl8(At(state.inventory, 7), 4))
        b7  == BitOr(BitOr(At(hero_name_packed, 3),
                           Shl8(U8FromBool(state.flag_beated_dragon), 6)),
                     Shl8(U8FromBool(bit_test(state.salt, 2)), 7))
        b8  == BitOr(BitOr(state.hero_shield, Shl8(state.hero_armor, 2)),
                     Shl8(state.hero_weapon, 5))
        b9  == u16_hi(state.purse)
        b10 == BitOr(state.herb_count, Shl8(state.key_count, 4))
        b11 == BitOr(At(state.inventory, 4), Shl8(At(state.inventory, 5), 4))
        b12 == u16_hi(state.hero_xp)
        b13 == BitOr(BitOr(U8FromBool(state.flag_equip_warrior_ring),
                           Shl8(At(hero_name_packed, 1), 1)),
                     Shl8(U8FromBool(state.flag_equip_dragon_scale), 7))
        b14 == BitOr(At(state.inventory, 0), Shl8(At(state.inventory, 1), 4))
        tail == <<b1, b2, b3, b4, b5, b6, b7, b8, b9, b10, b11, b12, b13, b14>>
        b0  == u16_lo(crc_fold(tail, Len(tail)))
    IN  <<b0>> \o tail

RECURSIVE bytes_to_password_chunks(_, _, _)
\* the loop of bytes_to_password over bytes.chunks(3), from chunk g on
bytes_to_password_chunks(bytes, g, cum) ==
    IF 3 * g >= Len(bytes) THEN <<>>
    ELSE LET chunk == SubSeq(bytes, 3 * g + 1, 3 * g + 3)
             c0 == BitAnd(cum + BitAnd(At(chunk, 0), 63) + 4, 63)
             c1 == BitAnd(c0 + BitOr(Shr(At(chunk, 0), 6),
                                     Shl8(BitAnd(At(chunk, 1), 15), 2)) + 4, 63)
             c2 == BitAnd(c1 + BitOr(Shr(At(chunk, 1), 4),
                                     Shl8(BitAnd(At(chunk, 2), 3), 4)) + 4, 63)
             c3 == BitAnd(c2 + Shr(At(chunk, 2), 2) + 4, 63)
         IN  << cum_to_password_char(c0), cum_to_password_char(c1),
                cum_to_password_char(c2), cum_to_password_char(c3) >>
             \o bytes_to_password_chunks(bytes, g + 1, c3)

bytes_to_password(bytes) == bytes_to_password_chunks(bytes, 0, 0)

encode(state) ==
    LET normalized == GameState_normalize(state)
    IN  IF ~IsOk(normalized) THEN normalized
        ELSE Ok(bytes_to_password(state_to_bytes(normalized.val)))

(***************************************************************************)
(* decode.rs                                                               *)
(***************************************************************************)
\* the successive results of the closure get_bits over the characters
\* a variant of get_bits that forgets the constant 4 between two symbols
get_bits_no_offset(password) ==
    [i \in 1..Len(password) |->
        LET cur == password_char_to_cum(password[i])
            pre == IF i = 1 THEN 0 ELSE password_char_to_cum(password[i - 1])
        IN  BitAnd(WrappingSub8(cur, pre), 63)]

get_bits(password) ==
    [i \in 1..Len(password) |->
        LET cur == password_char_to_cum(password[i])
            pre == IF i = 1 THEN 0 ELSE password_char_to_cum(password[i - 1])
        IN  BitAnd(WrappingSub8(cur, pre + 4), 63)]

password_to_bytes(password) ==
    LET bits == get_bits(password)
    IN  [n \in 1..15 |->
            LET g == (n - 1) \div 3
                r == (n - 1) % 3
            IN  CASE r = 0 -> BitOr(bits[4 * g + 1], Shl8(bits[4 * g + 2], 6))
                  [] r = 1 -> BitOr(Shr(bits[4 * g + 2], 2), Shl8(bits[4 * g + 3], 4))
                  [] r = 2 -> BitOr(Shr(bits[4 * g + 3], 4), Shl8(bits[4 * g + 4], 2))]

\* a variant of check_bytes_crc: reports only the low byte as the actual CRC
check_bytes_crc_low(bytes) ==
    LET crc_actual == crc_fold(SubSeq(bytes, 2, Len(bytes)), Len(bytes) - 1)
    IN  IF BitAnd(crc_actual, 255) # At(bytes, 0)
        THEN crc_mismatch(At(bytes, 0), BitAnd(crc_actual, 255))
        ELSE Ok(<<>>)

check_bytes_crc(bytes) ==
    LET crc_actual == crc_fold(SubSeq(bytes, 2, Len(bytes)), Len(bytes) - 1)
    IN  IF BitAnd(crc_actual, 255) # At(bytes, 0)
        THEN crc_mismatch(At(bytes, 0), crc_actual)
        ELSE Ok(<<>>)

bytes_to_state(bytes) ==
    LET hero_name_packed ==
            << Shr(At(bytes, 5), 2),
               BitAnd(Shr(At(bytes, 13), 1), 63),
               BitAnd(At(bytes, 2), 63),
               BitAnd(At(bytes, 7), 63) >>
    IN  [ hero_name   |-> unpack_hero_name(hero_name_packed),
          hero_xp     |-> BitOr(At(bytes, 1), Shl16(At(bytes, 12), 8)),
          purse       |-> BitOr(At(bytes, 4), Shl16(At(bytes, 9), 8)),
          hero_weapon |-> Shr(At(bytes, 8), 5),
          hero_armor  |-> BitAnd(Shr(At(bytes, 8), 2), 7),
          hero_shield |-> BitAnd(At(bytes, 8), 3),
          herb_count  |-> BitAnd(At(bytes, 10), 15),
          key_count   |-> Shr(At(bytes, 10), 4),
          inventory   |-> << BitAnd(At(bytes, 14), 15), Shr(At(bytes, 14), 4),
                             BitAnd(At(bytes, 3), 15),  Shr(At(bytes, 3), 4),
                             BitAnd(At(bytes, 11), 15), Shr(At(bytes, 11), 4),
                             BitAnd(At(bytes, 6), 15),  Shr(At(bytes, 6), 4) >>,
          flag_equip_dragon_scale |-> bit_test(At(bytes, 13), 7),
          flag_equip_warrior_ring |-> bit_test(At(bytes, 13), 0),
          flag_got_death_necklace |-> bit_test(At(bytes, 2), 6),
          flag_beated_golem       |-> bit_test(At(bytes, 5), 1),
          flag_beated_dragon      |-> bit_test(At(bytes, 7), 6),
          salt |-> BitOr(BitOr(U8FromBool(bit_test(At(bytes, 5), 0)),
                               Shl8(U8FromBool(bit_test(At(bytes, 2), 7)), 1)),
                         Shl8(U8FromBool(bit_test(At(bytes, 7), 7)), 2)) ]

\* a variant of decode that does not validate the inventory
decode_inventory_unchecked(password) ==
    LET normalized == normalize_password(password)
    IN  IF ~IsOk(normalized) THEN normalized
        ELSE LET bytes == password_to_bytes(normalized.val)
                 crc == check_bytes_crc(bytes)
                 state == bytes_to_state(bytes)
                 r1 == validate_herb_count(state.herb_count)
                 r2 == validate_key_count(state.key_count)
             IN  IF ~IsOk(crc) THEN crc
                 ELSE IF ~IsOk(r1) THEN r1
                 ELSE IF ~IsOk(r2) THEN r2
                 ELSE Ok(state)

decode(password) ==
    LET normalized == normalize_password(password)
    IN  IF ~IsOk(normalized) THEN normalized
        ELSE LET bytes == password_to_bytes(normalized.val)
                 crc == check_bytes_crc(bytes)
                 state == bytes_to_state(bytes)
                 r1 == validate_herb_count(state.herb_count)
                 r2 == validate_key_count(state.key_count)
                 r3 == validate_inventory(state.inventory)
             IN  IF ~IsOk(crc) THEN crc
                 ELSE IF ~IsOk(r1) THEN r1
                 ELSE IF ~IsOk(r2) THEN r2
                 ELSE IF ~IsOk(r3) THEN r3
                 ELSE Ok(state)

(***************************************************************************)
(* generate.rs                                                             *)
(***************************************************************************)
\* DpTrace: (j, k, l) packed into a u16
DpTrace_new(j, k, l) == BitOr(BitOr(k, Shl16(j, 8)), Shl16(l, 14))

\* a variant of DpTrace::j that keeps five bits of j
DpTrace_j_five_bits(t) == BitAnd(Shr(t, 8), 31)

DpTrace_j(t) == BitAnd(Shr(t, 8), 63)

DpTrace_k(t) == BitAnd(t, 255)

DpTrace_l(t) == Shr(t, 14)

\* RangeInclusive<u8> as << first, last >>
\* a variant that takes the symbol after the pattern's
cum_range_next(opt_cum) ==
    IF opt_cum = None THEN <<0, 63>>
    ELSE <<(opt_cum + 1) % 64, (opt_cum + 1) % 64>>

cum_range(opt_cum) ==
    IF opt_cum = None THEN <<0, 63>> ELSE <<opt_cum, opt_cum>>

RangeSet(r) == r[1]..r[2]

RangeLen(r) == r[2] - r[1] + 1

RECURSIVE crc16_table_entry(_, _)
\* table[i][j] as crc16_table_tail fills it: rows 17..14 directly, rows
\* 13..0 from the row four below
crc16_table_entry(i, j) ==
    CASE i = 17 -> crc_update(0, Shl8(j, 2), 8)
      [] i = 16 -> BitXor(crc_update(0, Shr(j, 4), 2),
                          crc_update(crc_update(0, Shl8(j, 4), 8), 0, 8))
      [] i = 15 -> BitXor(crc_update(crc_update(0, Shr(j, 2), 4), 0, 8),
                          crc_update(crc_update(crc_update(0, Shl8(j, 6), 8),
                                                0, 8), 0, 8))
      [] i = 14 -> crc_update(crc_update(crc_update(0, j, 6), 0, 8), 0, 8)
      [] OTHER  -> crc_update(crc_update(crc_update(
                        crc16_table_entry(i + 4, j), 0, 8), 0, 8), 0, 8)

\* a variant of crc16_table_tail with rows 15 and 16 exchanged
crc16_table_tail_rows_exchanged ==
    [i \in 0..17 |->
        [j \in 0..63 |->
            crc16_table_entry(IF i = 15 THEN 16 ELSE IF i = 16 THEN 15 ELSE i, j)]]

crc16_table_tail == [i \in 0..17 |-> [j \in 0..63 |-> crc16_table_entry(i, j)]]

crc8_table_tail ==
    [i \in 0..17 |-> [j \in 0..63 |-> BitAnd(crc16_table_tail[i][j], 255)]]

\* a variant of crc8_table_head that advances the entry by two bytes only
crc8_table_head_two_bytes ==
    [j \in 0..15 |->
        BitAnd(crc_update(crc_update(
                   crc16_table_tail[3][Shl8(j, 2)], 0, 8), 0, 8), 255)]

crc8_table_head ==
    [j \in 0..15 |->
        BitAnd(crc_update(crc_update(crc_update(
                   crc16_table_tail[3][Shl8(j, 2)], 0, 8), 0, 8), 0, 8), 255)]

sixs_to_bytes(sixs) ==
    [n \in 1..15 |->
        LET g == (n - 1) \div 3
            r == (n - 1) % 3
            ss == SubSeq(sixs, 4 * g + 1, 4 * g + 4)
        IN  CASE r = 0 -> BitOr(At(ss, 0), Shl8(At(ss, 1), 6))
              [] r = 1 -> BitOr(Shr(At(ss, 1), 2), Shl8(At(ss, 2), 4))
              [] r = 2 -> BitOr(Shr(At(ss, 2), 4), Shl8(At(ss, 3), 2))]

\* A level dp[i] of the table is held as a function from its non-empty cells
\* << j, k, l >> to their Vec<DpTrace>; a cell outside the domain is an empty
\* Vec.
Pruned == << >>

\* a variant of the iteration below without the herb_count check
DpStep_no_herb_check(i, cell, cum) ==
    LET j == cell[1]
        k == cell[2]
        l == cell[3]
        six == BitAnd(WrappingSub8(cum, j + 4), 63)
    IN  IF i = 12 /\ BitAnd(six, 15) >= 7 THEN Pruned
        ELSE IF i \in {2, 6} /\ BitAnd(six, 15) = 15 THEN Pruned
        ELSE IF i \in {13, 17} /\ Shr(six, 2) = 15 THEN Pruned
        ELSE IF i \in {3, 7, 13, 17} /\ l = 1 /\ BitAnd(six, 3) = 3 THEN Pruned
        ELSE LET crc == BitXor(k, crc8_table_tail[i][six])
                 l_nxt == U8FromBool(Shr(six, 4) = 3)
             IN  << cum, crc, l_nxt >>

\* one iteration of the innermost loop of generate_dp: the cell of level
\* i + 1 that receives a trace from cell << j, k, l >> of level i for the
\* cumulative value cum, or Pruned when the iteration hits a `continue`
DpStep(i, cell, cum) ==
    LET j == cell[1]
        k == cell[2]
        l == cell[3]
        six == BitAnd(WrappingSub8(cum, j + 4), 63)
    IN  IF i = 11 /\ Shr(six, 2) >= 7 THEN Pruned
        ELSE IF i = 12 /\ BitAnd(six, 15) >= 7 THEN Pruned
        ELSE IF i \in {2, 6} /\ BitAnd(six, 15) = 15 THEN Pruned
        ELSE IF i \in {13, 17} /\ Shr(six, 2) = 15 THEN Pruned
        ELSE IF i \in {3, 7, 13, 17} /\ l = 1 /\ BitAnd(six, 3) = 3 THEN Pruned
        ELSE LET crc == BitXor(k, crc8_table_tail[i][six])
                 l_nxt == U8FromBool(Shr(six, 4) = 3)
             IN  << cum, crc, l_nxt >>

\* position of a cell in the iteration order of iproduct!(.., j, k, l)
CellOrder(cell) == cell[1] * 512 + cell[2] * 2 + cell[3]

RECURSIVE CellsInOrder(_)
\* the cells of a set in iteration order
CellsInOrder(cells) ==
    IF cells = {} THEN <<>>
    ELSE LET first == CHOOSE c \in cells :
                          \A d \in cells : CellOrder(c) <= CellOrder(d)
         IN  <<first>> \o CellsInOrder(cells \ {first})

\* a variant of the level below whose cells keep one trace at most
DpLevel_single_trace(i, level, cums_tail, n_max) ==
    LET range == RangeSet(cum_range(At(cums_tail, i)))
        pushes == [ cum \in range |->
                      { << DpStep(i, cell, cum), cell >> : cell \in DOMAIN level } ]
                  @@ << >>
        reached == UNION { { p[1] : p \in pushes[cum] } : cum \in range }
                       \ { Pruned }
    IN  [ dest \in reached |->
            LET from == { p[2] : p \in { q \in pushes[dest[1]] : q[1] = dest } }
                order == Take(CellsInOrder(from), Min(n_max, 1))
            IN  [ n \in 1..Len(order) |->
                    DpTrace_new(order[n][1], order[n][2], order[n][3]) ] ]

\* Level i + 1 after the loop has run over every cell of level i: each cell
\* holds the traces of the cells that reach it, in the order the loop visits
\* them, the pushes beyond n_max dropped.
DpLevel(i, level, cums_tail, n_max) ==
    LET range == RangeSet(cum_range(At(cums_tail, i)))
        pushes == [ cum \in range |->
                      { << DpStep(i, cell, cum), cell >> : cell \in DOMAIN level } ]
                  @@ << >>   \* computed once, not at each application
        reached == UNION { { p[1] : p \in pushes[cum] } : cum \in range }
                       \ { Pruned }
    IN  [ dest \in reached |->
            LET from == { p[2] : p \in { q \in pushes[dest[1]] : q[1] = dest } }
                order == Take(CellsInOrder(from), n_max)
            IN  [ n \in 1..Len(order) |->
                    DpTrace_new(order[n][1], order[n][2], order[n][3]) ] ]

\* dp[0] as generate_dp seeds it
DpSeed(sixs_head) ==
    LET cum_ini == BitAnd(At(sixs_head, 0) + At(sixs_head, 1) + 8, 63)
        crc_ini == crc8_table_head[Shr(At(sixs_head, 1), 2)]
    IN  [ cell \in { << cum_ini, crc_ini, 0 >> } |-> << DpTrace_new(0, 0, 0) >> ]

\* dp[i][j][k][l] of a table held as the sequence of its levels 0..18
DpCell(dp, i, cell) ==
    IF cell \in DOMAIN At(dp, i) THEN At(dp, i)[cell] ELSE <<>>

RECURSIVE dfs(_, _, _, _, _, _)
RECURSIVE dfs_traces(_, _, _, _, _, _, _)
\* Dfs::dfs; the value is self.bytess after the call, and the call returned
\* true exactly when that has n_max elements.  Entries of sixs written by a
\* call are overwritten before they are read again, so sixs is passed down
\* only.
dfs(dp, n_max, i, cell, sixs, bytess) ==
    IF i = 0 THEN Append(bytess, sixs_to_bytes(sixs))
    ELSE dfs_traces(dp, n_max, i, cell, 1, sixs, bytess)

\* the for loop of Dfs::dfs from the t-th trace of the cell on
dfs_traces(dp, n_max, i, cell, t, sixs, bytess) ==
    LET traces == DpCell(dp, i, cell)
    IN  IF t > Len(traces) THEN bytess
        ELSE LET trace == traces[t]
                 six == BitAnd(WrappingSub8(cell[1], DpTrace_j(trace) + 4), 63)
                 sixs_nxt == [sixs EXCEPT ![i + 2] = six]
                 found == dfs(dp, n_max, i - 1,
                              << DpTrace_j(trace), DpTrace_k(trace),
                                 DpTrace_l(trace) >>,
                              sixs_nxt, bytess)
             IN  IF Len(found) = n_max THEN found
                 ELSE dfs_traces(dp, n_max, i, cell, t + 1, sixs_nxt, found)

RECURSIVE restore_loop(_, _, _, _, _, _)
\* the loop of generate_dp_restore over the non-empty cells of level 18, from
\* the n-th one on
restore_loop(dp, n_max, ends, n, sixs, bytess) ==
    IF n > Len(ends) THEN bytess
    ELSE LET found == dfs(dp, n_max, 18, ends[n], sixs, bytess)
         IN  IF Len(found) = n_max THEN found
             ELSE restore_loop(dp, n_max, ends, n + 1, sixs, found)

generate_dp_restore(sixs_head, cums_tail, n_max, dp) ==
    LET crc_expect == BitOr(At(sixs_head, 0), Shl8(At(sixs_head, 1), 6))
        sixs == sixs_head \o << 0, 0, 0, 0, 0, 0, 0, 0, 0, 0, 0, 0, 0, 0, 0, 0, 0, 0 >>
        ends == CellsInOrder(
                    { << cum, crc_expect, l >> :
                          cum \in RangeSet(cum_range(At(cums_tail, 17))),
                          l \in 0..1 }
                        \cap DOMAIN At(dp, 18))
    IN  restore_loop(dp, n_max, ends, 1, sixs, <<>>)

\* a variant that visits each pair twice
HeadPair_twice(cums_head, n) ==
    LET r0 == cum_range(At(cums_head, 0))
        r1 == cum_range(At(cums_head, 1))
        m == n \div 2
    IN  << r0[1] + (m \div RangeLen(r1)), r1[1] + (m % RangeLen(r1)) >>

\* the (n + 1)-th pair of iproduct!(cum_range(head0), cum_range(head1))
HeadPair(cums_head, n) ==
    LET r0 == cum_range(At(cums_head, 0))
        r1 == cum_range(At(cums_head, 1))
    IN  << r0[1] + (n \div RangeLen(r1)), r1[1] + (n % RangeLen(r1)) >>

HeadPairCount(cums_head) ==
    RangeLen(cum_range(At(cums_head, 0))) * RangeLen(cum_range(At(cums_head, 1)))

\* sixs_head of generate for the head pair << cum0, cum1 >>
SixsHead(pair) ==
    << BitAnd(WrappingSub8(pair[1], 4), 63),
       BitAnd(WrappingSub8(pair[2], pair[1] + 4), 63) >>

(***************************************************************************)
(* Bounded input sets.                                                     *)
(***************************************************************************)
\* hero names tried: every string over NameChars of at most MaxNameLen
\* characters, and the names used by the crate's tests
MaxNameLen == 3

\* numeric fields are tried up to MaxExcess above their valid maximum
MaxExcess == 2

\* 'あ', 'が' (expands to two symbols), 'ー' (maps to '-'), 'A' (foreign)
NameChars == {12354, 12364, 12540, 65}

SeqsUpTo(S, n) == UNION {[1..k -> S] : k \in 0..n}

\* "しどー", "0123", "　あーす", "あああああ"
TestNames ==
    { <<12375, 12393, 12540>>, <<48, 49, 50, 51>>,
      <<12288, 12354, 12540, 12377>>, <<12354, 12354, 12354, 12354, 12354>> }

HeroNames == SeqsUpTo(NameChars, MaxNameLen) \cup TestNames

Excess == 1..MaxExcess

XpPurseProfiles == { <<0, 0>>, <<1234, 5678>>, <<65535, 65535>>, <<255, 256>> }

\* << hero_weapon, hero_armor, hero_shield >>
EquipProfiles ==
    { <<0, 0, 0>>, <<5, 5, 2>>, <<WEAPON_MAX, ARMOR_MAX, SHIELD_MAX>> }

EquipExcessProfiles ==
    { <<WEAPON_MAX + e, 0, 0>> : e \in Excess }
        \cup { <<0, ARMOR_MAX + e, 0>> : e \in Excess }
        \cup { <<0, 0, SHIELD_MAX + e>> : e \in Excess }

\* << herb_count, key_count >>
HerbKeyProfiles == { <<0, 0>>, <<HERB_MAX, KEY_MAX>> }

HerbKeyExcessProfiles ==
    { <<HERB_MAX + e, 0>> : e \in Excess }
        \cup { <<0, KEY_MAX + e>> : e \in Excess }

InventoryProfiles ==
    { <<0, 0, 0, 0, 0, 0, 0, 0>>, <<1, 2, 3, 4, 5, 6, 7, 8>>,
      <<14, 14, 14, 14, 14, 14, 14, 14>> }

InventoryExcessProfiles ==
    { [i \in 1..8 |-> IF i = k THEN TOOL_MAX + e ELSE 0] :
          k \in {1, 4, 8}, e \in Excess }

\* << dragon_scale, warrior_ring, death_necklace, golem, dragon, salt >>
FlagSaltProfiles ==
    { <<FALSE, FALSE, FALSE, FALSE, FALSE, 0>>,
      <<TRUE, TRUE, TRUE, TRUE, TRUE, 5>>,
      <<TRUE, FALSE, TRUE, FALSE, TRUE, SALT_MAX>>,
      <<FALSE, TRUE, FALSE, TRUE, FALSE, 2>> }

FlagSaltExcessProfiles ==
    { <<FALSE, FALSE, FALSE, FALSE, FALSE, SALT_MAX + e>> : e \in Excess }

MkState(name, xp, eq, hk, inv, fs) ==
    [ hero_name   |-> name,
      hero_xp     |-> xp[1],
      purse       |-> xp[2],
      hero_weapon |-> eq[1],
      hero_armor  |-> eq[2],
      hero_shield |-> eq[3],
      herb_count  |-> hk[1],
      key_count   |-> hk[2],
      inventory   |-> inv,
      flag_equip_dragon_scale |-> fs[1],
      flag_equip_warrior_ring |-> fs[2],
      flag_got_death_necklace |-> fs[3],
      flag_beated_golem       |-> fs[4],
      flag_beated_dragon      |-> fs[5],
      salt |-> fs[6] ]

\* GameState::default()
DefaultState ==
    MkState(<<>>, <<0, 0>>, <<0, 0, 0>>, <<0, 0>>,
            <<0, 0, 0, 0, 0, 0, 0, 0>>,
            <<FALSE, FALSE, FALSE, FALSE, FALSE, 0>>)

\* the state of the crate's second encode test, hero_name left to vary
TestStateA(name) ==
    MkState(name, <<1234, 5678>>, <<5, 5, 2>>, <<6, 6>>,
            <<1, 2, 3, 4, 5, 6, 7, 8>>, <<TRUE, TRUE, TRUE, TRUE, TRUE, 5>>)

\* "", "しどー"
BaseNames == { <<>>, <<12375, 12393, 12540>> }

\* every hero name on two fixed states
NameStates ==
    { [DefaultState EXCEPT !.hero_name = n] : n \in HeroNames }
        \cup { TestStateA(n) : n \in HeroNames }

\* every combination of the in-range field profiles
InRangeStates ==
    { MkState(n, xp, eq, hk, inv, fs) :
          n \in BaseNames, xp \in XpPurseProfiles, eq \in EquipProfiles,
          hk \in HerbKeyProfiles, inv \in InventoryProfiles,
          fs \in FlagSaltProfiles }

\* one group of fields out of range on an otherwise valid state
OutOfRangeStates ==
    LET bases == { DefaultState, TestStateA(<<12375, 12393, 12540>>) }
    IN  { [b EXCEPT !.hero_weapon = eq[1], !.hero_armor = eq[2],
                    !.hero_shield = eq[3]] :
              b \in bases, eq \in EquipExcessProfiles }
        \cup { [b EXCEPT !.herb_count = hk[1], !.key_count = hk[2]] :
                   b \in bases, hk \in HerbKeyExcessProfiles }
        \cup { [b EXCEPT !.inventory = inv] :
                   b \in bases, inv \in InventoryExcessProfiles }
        \cup { [b EXCEPT !.salt = fs[6]] :
                   b \in bases, fs \in FlagSaltExcessProfiles }

GameStates == NameStates \cup InRangeStates \cup OutOfRangeStates

(***************************************************************************)
(* State.                                                                  *)
(***************************************************************************)
VARIABLES
    pc,          \* position of the scenario being run
    state,       \* the GameState given to validate / normalize / encode
    password,    \* the string given to decode
    validated,   \* result of validate()
    normalized,  \* result of normalize()
    encoded,     \* result of encode(..)
    decoded,     \* result of decode(..)
    pattern,     \* the string given to generate
    n_max,       \* the cap given to generate
    cums,        \* generate: the pattern as Option<u8> cumulative values
    head,        \* generate: number of head pairs the loop has finished
    n_remain,    \* generate: n_remain
    bytess,      \* generate: bytess
    dp,          \* generate_dp: the levels of dp filled so far
    generated,   \* result of generate(..)
    op,          \* the function called on its own
    arg,         \* the input it is called with
    result       \* what it returned

codecVars == << state, password, validated, normalized, encoded, decoded >>

genVars == << pattern, n_max, cums, head, n_remain, bytess, dp, generated >>

callVars == << op, arg, result >>

vars == << pc, codecVars, genVars, callVars >>

\* a result slot not yet filled
Pending == [kind |-> "Pending"]

\* the variables of generate before generate is called
GenIdle ==
    /\ pattern = <<>>
    /\ n_max = 0
    /\ cums = <<>>
    /\ head = 0
    /\ n_remain = 0
    /\ bytess = <<>>
    /\ dp = <<>>
    /\ generated = Pending

\* the variables of a single call before any function is called
CallIdle ==
    /\ op = "none"
    /\ arg = << >>
    /\ result = Pending

(***************************************************************************)
(* Scenario 1: a GameState is validated, normalized, encoded, and the      *)
(* password obtained is decoded again.                                     *)
(***************************************************************************)
InitEncode ==
    /\ pc = "validate"
    /\ state \in GameStates
    /\ password = <<>>
    /\ validated = Pending
    /\ normalized = Pending
    /\ encoded = Pending
    /\ decoded = Pending
    /\ GenIdle
    /\ CallIdle

Validate ==
    /\ pc = "validate"
    /\ validated' = GameState_validate(state)
    /\ pc' = "normalize"
    /\ UNCHANGED << state, password, normalized, encoded, decoded >>
    /\ UNCHANGED genVars
    /\ UNCHANGED callVars

Normalize ==
    /\ pc = "normalize"
    /\ normalized' = GameState_normalize(state)
    /\ pc' = "encode"
    /\ UNCHANGED << state, password, validated, encoded, decoded >>
    /\ UNCHANGED genVars
    /\ UNCHANGED callVars

Encode ==
    /\ pc = "encode"
    /\ encoded' = encode(state)
    /\ pc' = IF IsOk(encoded') THEN "decode" ELSE "done"
    /\ password' = IF IsOk(encoded') THEN encoded'.val ELSE password
    /\ UNCHANGED << state, validated, normalized, decoded >>
    /\ UNCHANGED genVars
    /\ UNCHANGED callVars

DecodeEncoded ==
    /\ pc = "decode"
    /\ decoded' = decode(password)
    /\ pc' = "done"
    /\ UNCHANGED << state, password, validated, normalized, encoded >>
    /\ UNCHANGED genVars
    /\ UNCHANGED callVars

NextEncode == Validate \/ Normalize \/ Encode \/ DecodeEncoded

SpecEncode == InitEncode /\ [][NextEncode]_vars

(***************************************************************************)
(* Scenario 2: a string is decoded, and the state obtained is encoded      *)
(* again.                                                                  *)
(***************************************************************************)
\* "つにこへむゆるわげげだどべうきさそさには" : GameState::default()
TestPasswordDefault ==
    << 12388, 12395, 12371, 12408, 12416, 12422, 12427, 12431, 12370,
       12370, 12384, 12393, 12409, 12358, 12365, 12373, 12381, 12373,
       12395, 12399 >>

\* "ざぼちずどぢぎきつたうずせれえむるのぢえ" : the crate's test state A
TestPasswordA ==
    << 12374, 12412, 12385, 12378, 12393, 12386, 12366, 12365, 12388,
       12383, 12358, 12378, 12379, 12428, 12360, 12416, 12427, 12398,
       12386, 12360 >>

\* "どくのばうぼぞそこけばがきもびはめつごび" : state A with inventory[7] = 15
TestPasswordInv15 ==
    << 12393, 12367, 12398, 12400, 12358, 12412, 12382, 12381, 12371,
       12369, 12400, 12364, 12365, 12418, 12403, 12399, 12417, 12388,
       12372, 12403 >>

TestPasswords == { TestPasswordDefault, TestPasswordA, TestPasswordInv15 }

\* the 64 symbols of the password alphabet
Symbols == { PASSWORD_CHARS[i] : i \in 1..Len(PASSWORD_CHARS) }

\* 0-based positions of test password A that are replaced by every pair of
\* symbols; they carry herb_count, key_count and inventory[4], inventory[5]
FreePositions == << 13, 14 >>

MutatedPasswords ==
    { [TestPasswordA EXCEPT ![FreePositions[1] + 1] = c1,
                            ![FreePositions[2] + 1] = c2] :
          c1 \in Symbols, c2 \in Symbols }

\* every test password with its last character replaced by every symbol
LastCharPasswords ==
    { [p EXCEPT ![20] = c] : p \in TestPasswords, c \in Symbols }

\* strings that are not in normal form or not well formed: ASCII and
\* fullwidth spaces inserted, one character short, one character long, a
\* kanji, a '?'
OddPasswords ==
    { SubSeq(TestPasswordA, 1, 5) \o <<32>> \o SubSeq(TestPasswordA, 6, 12)
          \o <<12288>> \o SubSeq(TestPasswordA, 13, 20) \o <<10>>,
      SubSeq(TestPasswordA, 1, 19),
      TestPasswordA \o <<12354>>,
      [TestPasswordA EXCEPT ![7] = 28450],
      [TestPasswordA EXCEPT ![20] = QUESTION],
      <<>> }

\* the passwords of the states that differ in hero_name
NamePasswords ==
    { encode(s).val : s \in { t \in NameStates : IsOk(encode(t)) } }

Passwords ==
    TestPasswords \cup MutatedPasswords \cup LastCharPasswords
        \cup OddPasswords \cup NamePasswords

InitDecode ==
    /\ pc = "decode_input"
    /\ password \in Passwords
    /\ state = DefaultState
    /\ validated = Pending
    /\ normalized = Pending
    /\ encoded = Pending
    /\ decoded = Pending
    /\ GenIdle
    /\ CallIdle

DecodeInput ==
    /\ pc = "decode_input"
    /\ decoded' = decode(password)
    /\ pc' = IF IsOk(decoded') THEN "reencode" ELSE "done"
    /\ state' = IF IsOk(decoded') THEN decoded'.val ELSE state
    /\ UNCHANGED << password, validated, normalized, encoded >>
    /\ UNCHANGED genVars
    /\ UNCHANGED callVars

Reencode ==
    /\ pc = "reencode"
    /\ encoded' = encode(state)
    /\ pc' = "done"
    /\ UNCHANGED << state, password, validated, normalized, decoded >>
    /\ UNCHANGED genVars
    /\ UNCHANGED callVars

NextDecode == DecodeInput \/ Reencode

SpecDecode == InitDecode /\ [][NextDecode]_vars

(***************************************************************************)
(* Scenario 3: a pattern is normalized, validated, and given to generate   *)
(* with a cap; generate runs head pair by head pair, and generate_dp level *)
(* by level.                                                               *)
(***************************************************************************)
\* caps tried: 0..MaxN
MaxN == 3

\* 0-based positions of the test passwords that are turned into '?'
WildcardSets ==
    { {}, {19}, {18, 19}, {1, 19}, {1, 13}, {1, 14}, {0, 3}, {1, 7},
      {1, 4}, {4, 5}, {4, 19}, {13, 14}, {15, 16}, {15, 19} }

PatternOf(base, wild) ==
    [i \in 1..20 |-> IF (i - 1) \in wild THEN QUESTION ELSE base[i]]

WildcardPatterns ==
    { PatternOf(TestPasswordA, w) : w \in WildcardSets }
        \cup { PatternOf(TestPasswordA, {w}) : w \in {0, 1, 4, 13, 14, 15} }
        \cup { PatternOf(TestPasswordDefault, {10}),
               PatternOf(TestPasswordDefault, {1, 8}),
               PatternOf(TestPasswordDefault, {1, 19}),
               PatternOf(TestPasswordInv15, {}),
               PatternOf(TestPasswordInv15, {1, 19}) }

\* patterns that are not in normal form or not well formed: fullwidth '？'
\* and spaces, one character short, one character long, a kanji, an 'A'
OddPatterns ==
    { SubSeq(TestPasswordA, 1, 5) \o <<32>> \o SubSeq(TestPasswordA, 6, 18)
          \o <<12288, FULLWIDTH_QUESTION, QUESTION, 10>>,
      SubSeq(PatternOf(TestPasswordA, {19}), 2, 20),
      PatternOf(TestPasswordA, {19}) \o <<QUESTION>>,
      [TestPasswordA EXCEPT ![7] = 28450, ![20] = QUESTION],
      [TestPasswordA EXCEPT ![20] = 65],
      <<>> }

Patterns == WildcardPatterns \cup OddPatterns

InitGenerate ==
    /\ pc = "normalize_pattern"
    /\ pattern \in Patterns
    /\ n_max \in 0..MaxN
    /\ state = DefaultState
    /\ password = <<>>
    /\ validated = Pending
    /\ normalized = Pending
    /\ encoded = Pending
    /\ decoded = Pending
    /\ cums = <<>>
    /\ head = 0
    /\ n_remain = 0
    /\ bytess = <<>>
    /\ dp = <<>>
    /\ generated = Pending
    /\ CallIdle

NormalizePattern ==
    /\ pc = "normalize_pattern"
    /\ normalized' = normalize_pattern(pattern)
    /\ pc' = "validate_pattern"
    /\ UNCHANGED << state, password, validated, encoded, decoded >>
    /\ UNCHANGED genVars
    /\ UNCHANGED callVars

ValidatePattern ==
    /\ pc = "validate_pattern"
    /\ validated' = validate_pattern(pattern)
    /\ pc' = "generate"
    /\ UNCHANGED << state, password, normalized, encoded, decoded >>
    /\ UNCHANGED genVars
    /\ UNCHANGED callVars

cums_head == SubSeq(cums, 1, 2)

cums_tail == SubSeq(cums, 3, 20)

\* generate up to the loop over the head pairs
GenerateStart ==
    /\ pc = "generate"
    /\ LET r == normalize_pattern(pattern)
       IN  IF ~IsOk(r)
           THEN /\ generated' = r
                /\ pc' = "done"
                /\ UNCHANGED << cums, n_remain >>
           ELSE /\ cums' = [i \in 1..Len(r.val) |-> password_char_to_cum(r.val[i])]
                /\ n_remain' = n_max
                /\ pc' = "head"
                /\ UNCHANGED generated
    /\ UNCHANGED << pattern, n_max, head, bytess, dp >>
    /\ UNCHANGED codecVars
    /\ UNCHANGED callVars

\* a variant that leaves the loop only when the head pairs are exhausted
LoopEnded_pairs_only == head >= HeadPairCount(cums_head)

LoopEnded == head >= HeadPairCount(cums_head) \/ n_remain = 0

\* the loop takes the next head pair and generate_dp seeds dp[0]
GenerateHead ==
    /\ pc = "head"
    /\ ~LoopEnded
    /\ dp' = << DpSeed(SixsHead(HeadPair(cums_head, head))) >>
    /\ pc' = "dp"
    /\ UNCHANGED << pattern, n_max, cums, head, n_remain, bytess, generated >>
    /\ UNCHANGED codecVars
    /\ UNCHANGED callVars

\* generate_dp fills the next level of dp
GenerateDp ==
    /\ pc = "dp"
    /\ LET i == Len(dp) - 1
       IN  dp' = Append(dp, DpLevel(i, At(dp, i), cums_tail, n_remain))
    /\ pc' = IF Len(dp') = 19 THEN "restore" ELSE "dp"
    /\ UNCHANGED << pattern, n_max, cums, head, n_remain, bytess, generated >>
    /\ UNCHANGED codecVars
    /\ UNCHANGED callVars

\* generate_dp_restore returns, and the loop body of generate ends
GenerateRestore ==
    /\ pc = "restore"
    /\ LET partial == generate_dp_restore(SixsHead(HeadPair(cums_head, head)),
                                          cums_tail, n_remain, dp)
       IN  /\ n_remain' = n_remain - Len(partial)
           /\ bytess' = bytess \o partial
    /\ head' = head + 1
    /\ dp' = <<>>
    /\ pc' = "head"
    /\ UNCHANGED << pattern, n_max, cums, generated >>
    /\ UNCHANGED codecVars
    /\ UNCHANGED callVars

\* the loop is left and the buffers are rendered as passwords
GenerateReturn ==
    /\ pc = "head"
    /\ LoopEnded
    /\ generated' = Ok([n \in 1..Len(bytess) |-> bytes_to_password(bytess[n])])
    /\ pc' = "done"
    /\ UNCHANGED << pattern, n_max, cums, head, n_remain, bytess, dp >>
    /\ UNCHANGED codecVars
    /\ UNCHANGED callVars

NextGenerate ==
    \/ NormalizePattern
    \/ ValidatePattern
    \/ GenerateStart
    \/ GenerateHead
    \/ GenerateDp
    \/ GenerateRestore
    \/ GenerateReturn

SpecGenerate == InitGenerate /\ [][NextGenerate]_vars

(***************************************************************************)
(* Scenario 4: one public function is called on one input.                 *)
(***************************************************************************)
\* slices up to this length are given to validate_inventory
MaxSliceLen == 9

U8 == 0..255

\* slices filled with a valid tool id, the largest one, or the invalid 15,
\* and slices of valid ids that end in 15
Slices ==
    { [i \in 1..n |-> fill] : n \in 0..MaxSliceLen, fill \in {0, 14, 15} }
        \cup { [i \in 1..n |-> IF i = n THEN 15 ELSE 3] : n \in 1..MaxSliceLen }

Texts == HeroNames \cup TestPasswords \cup LastCharPasswords
             \cup OddPasswords \cup OddPatterns
             \cup { PatternOf(TestPasswordA, w) : w \in {{19}, {0, 7}} }
             \cup { <<160>> \o TestPasswordA \o <<9, 8195>>, <<32, 12288, 32>>,
                    TestPasswordDefault \o <<32, 12354>> }

CallStates ==
    { DefaultState, TestStateA(<<12375, 12393, 12540>>),
      [DefaultState EXCEPT !.hero_weapon = 8],
      [DefaultState EXCEPT !.hero_name = <<65>>],
      [DefaultState EXCEPT !.inventory[8] = 15] }

Input(type, vals) == { [type |-> type, val |-> v] : v \in vals }

CodecIdle ==
    /\ state = DefaultState
    /\ password = <<>>
    /\ validated = Pending
    /\ normalized = Pending
    /\ encoded = Pending
    /\ decoded = Pending

InitCall ==
    /\ pc = "call"
    /\ \/ arg \in Input("u8", U8)
       \/ arg \in Input("slice", Slices)
       \/ arg \in Input("str", Texts)
       \/ arg \in Input("state", CallStates)
    /\ op = "none"
    /\ result = Pending
    /\ CodecIdle
    /\ GenIdle

\* the function named name is called on arg and returns value
Call(type, name, value) ==
    /\ pc = "call"
    /\ arg.type = type
    /\ op' = name
    /\ result' = value
    /\ pc' = "done"
    /\ UNCHANGED arg
    /\ UNCHANGED codecVars
    /\ UNCHANGED genVars

CallValidateHeroWeapon ==
    Call("u8", "validate_hero_weapon", validate_hero_weapon(arg.val))

CallValidateHeroArmor ==
    Call("u8", "validate_hero_armor", validate_hero_armor(arg.val))

CallValidateHeroShield ==
    Call("u8", "validate_hero_shield", validate_hero_shield(arg.val))

CallValidateHerbCount ==
    Call("u8", "validate_herb_count", validate_herb_count(arg.val))

CallValidateKeyCount ==
    Call("u8", "validate_key_count", validate_key_count(arg.val))

CallValidateTool ==
    Call("u8", "validate_tool", validate_tool(arg.val))

CallValidateSalt ==
    Call("u8", "validate_salt", validate_salt(arg.val))

CallValidateInventory ==
    Call("slice", "validate_inventory", validate_inventory(arg.val))

CallValidateHeroName ==
    Call("str", "validate_hero_name", validate_hero_name(arg.val))

CallValidatePassword ==
    Call("str", "validate_password", validate_password(arg.val))

CallValidatePattern ==
    Call("str", "validate_pattern", validate_pattern(arg.val))

CallNormalizeHeroName ==
    Call("str", "normalize_hero_name", normalize_hero_name(arg.val))

CallNormalizePassword ==
    Call("str", "normalize_password", normalize_password(arg.val))

CallNormalizePattern ==
    Call("str", "normalize_pattern", normalize_pattern(arg.val))

CallDecode ==
    Call("str", "decode", decode(arg.val))

CallGameStateValidate ==
    Call("state", "GameState::validate", GameState_validate(arg.val))

CallGameStateNormalize ==
    Call("state", "GameState::normalize", GameState_normalize(arg.val))

CallEncode ==
    Call("state", "encode", encode(arg.val))

NextCall ==
    \/ CallValidateHeroWeapon
    \/ CallValidateHeroArmor
    \/ CallValidateHeroShield
    \/ CallValidateHerbCount
    \/ CallValidateKeyCount
    \/ CallValidateTool
    \/ CallValidateSalt
    \/ CallValidateInventory
    \/ CallValidateHeroName
    \/ CallValidatePassword
    \/ CallValidatePattern
    \/ CallNormalizeHeroName
    \/ CallNormalizePassword
    \/ CallNormalizePattern
    \/ CallDecode
    \/ CallGameStateValidate
    \/ CallGameStateNormalize
    \/ CallEncode

SpecCall == InitCall /\ [][NextCall]_vars

(***************************************************************************)
(* Scenario 5: the CRC and its tables are evaluated on one input.          *)
(***************************************************************************)
\* 0, single bits of both bytes, the polynomial, and three dense values
CrcSamples == {0, 1, 128, 256, 4129, 7439, 16384, 32768, 43981, 65535}

\* << crc, a, b, hi, lo >> : a chunk of a bits followed by one of b bits,
\* a + b <= 8
ChunkInputs ==
    UNION { { << crc, ab[1], ab[2], hi, lo >> :
                  crc \in CrcSamples,
                  hi \in 0..(2 ^ ab[1] - 1),
                  lo \in 0..(2 ^ ab[2] - 1) } :
            ab \in { w \in (1..7) \X (1..7) : w[1] + w[2] <= 8 } }

ByteSamples == {0, 1, 2, 3, 15, 16, 48, 63, 64, 69, 85, 103, 128, 137, 170, 192, 240, 255}

\* triples of sample bytes, and every byte value at each place
ByteTriples ==
    (ByteSamples \X ByteSamples \X ByteSamples)
        \cup { << b, 0, 0 >> : b \in U8 } \cup { << 0, b, 0 >> : b \in U8 }
        \cup { << 0, 0, b >> : b \in U8 } \cup { << b, 255 - b, b >> : b \in U8 }

\* the six-bit units of a password
SixsOf(p) == get_bits(p)

\* 20 six-bit units: every value at each single place, every value at all
\* places, arithmetic progressions, and the units of the test passwords
SixsSamples ==
    { [i \in 1..20 |-> IF i = n THEN v ELSE 0] : n \in 1..20, v \in 0..63 }
        \cup { [i \in 1..20 |-> v] : v \in 0..63 }
        \cup { [i \in 1..20 |-> (v + 7 * i * d) % 64] : v \in 0..63, d \in 1..3 }
        \cup { SixsOf(p) : p \in TestPasswords }

InitCrc ==
    /\ pc = "call"
    /\ \/ arg \in Input("chunks", ChunkInputs)
       \/ arg \in Input("triple", ByteTriples)
       \/ arg \in Input("sixs", SixsSamples)
    /\ op = "none"
    /\ result = Pending
    /\ CodecIdle
    /\ GenIdle

\* the six-bit regrouping of three bytes
bytes_to_sixs(bytes) ==
    << BitAnd(At(bytes, 0), 63),
       BitOr(Shr(At(bytes, 0), 6), Shl8(BitAnd(At(bytes, 1), 15), 2)),
       BitOr(Shr(At(bytes, 1), 4), Shl8(BitAnd(At(bytes, 2), 3), 4)),
       Shr(At(bytes, 2), 2) >>

\* TABLE[14][s0] ^ TABLE[15][s1] ^ TABLE[16][s2] ^ TABLE[17][s3]
Crc16ByTable(sixs) ==
    BitXor(BitXor(BitXor(crc16_table_tail[14][At(sixs, 0)],
                         crc16_table_tail[15][At(sixs, 1)]),
                  crc16_table_tail[16][At(sixs, 2)]),
           crc16_table_tail[17][At(sixs, 3)])

RECURSIVE Crc8ByTables(_, _)
\* the crc that generate_dp has accumulated after n units of the tail:
\* crc_ini, then k ^ CRC_TABLE[i][six] for i = 0 .. n - 1
Crc8ByTables(sixs, n) ==
    IF n = 0 THEN crc8_table_head[Shr(At(sixs, 1), 2)]
    ELSE LET k == Crc8ByTables(sixs, n - 1)
         IN  IF k \in U8 THEN BitXor(k, crc8_table_tail[n - 1][At(sixs, n + 1)])
             ELSE 0

\* crc_update on two chunks in turn, and on the two chunks joined
CrcUpdateChunks ==
    LET crc == arg.val[1]
        a == arg.val[2]
        b == arg.val[3]
        hi == arg.val[4]
        lo == arg.val[5]
    IN  Call("chunks", "crc_update",
             [split  |-> crc_update(crc_update(crc, hi, a), lo, b),
              joined |-> crc_update(crc, BitOr(Shl8(hi, b), lo), a + b)])

\* three bytes folded by crc_update, and looked up in crc16_table_tail
CrcTableTail ==
    Call("triple", "crc16_table_tail",
         [folded |-> crc_fold(arg.val, 3),
          table  |-> Crc16ByTable(bytes_to_sixs(arg.val))])

\* 20 units packed by sixs_to_bytes: the CRC of the buffer, the crc the DP
\* accumulates, and the crc_expect of generate_dp_restore
CrcDpTables ==
    LET bytes == sixs_to_bytes(arg.val)
    IN  Call("sixs", "crc8_tables",
             [bytes      |-> bytes,
              crc16      |-> crc_fold(SubSeq(bytes, 2, 15), 14),
              dp_crc     |-> Crc8ByTables(arg.val, 18),
              crc_expect |-> BitOr(At(arg.val, 0), Shl8(At(arg.val, 1), 6))])

NextCrc == CrcUpdateChunks \/ CrcTableTail \/ CrcDpTables

SpecCrc == InitCrc /\ [][NextCrc]_vars

(***************************************************************************)
(* Scenario 6: a buffer is rendered as a password and read back, and a     *)
(* password is read as a buffer and rendered again.                        *)
(***************************************************************************)
\* 15 bytes: every value at each single place, every value at all places,
\* and arithmetic progressions
BufferSamples ==
    { [i \in 1..15 |-> IF i = n THEN v ELSE 0] : n \in 1..15, v \in U8 }
        \cup { [i \in 1..15 |-> v] : v \in U8 }
        \cup { [i \in 1..15 |-> (v + 37 * i) % 256] : v \in U8 }

\* 20 symbols: the test passwords, those with two places replaced by every
\* pair of symbols, and every symbol at all places
PasswordSamples ==
    TestPasswords \cup MutatedPasswords \cup LastCharPasswords
        \cup { [i \in 1..20 |-> c] : c \in Symbols }

InitCodec ==
    /\ pc = "call"
    /\ \/ arg \in Input("bytes", BufferSamples)
       \/ arg \in Input("password", PasswordSamples)
    /\ op = "none"
    /\ result = Pending
    /\ CodecIdle
    /\ GenIdle

BytesToPasswordAndBack ==
    Call("bytes", "bytes_to_password",
         [there |-> bytes_to_password(arg.val),
          back  |-> password_to_bytes(bytes_to_password(arg.val))])

PasswordToBytesAndBack ==
    Call("password", "password_to_bytes",
         [there |-> password_to_bytes(arg.val),
          back  |-> bytes_to_password(password_to_bytes(arg.val))])

NextCodec == BytesToPasswordAndBack \/ PasswordToBytesAndBack

SpecCodec == InitCodec /\ [][NextCodec]_vars

(***************************************************************************)
(* Scenario 7: a password whose stored CRC byte matches is decoded, as it  *)
(* is and with its last character replaced by another symbol.              *)
(***************************************************************************)
\* passwords that pass check_bytes_crc: test passwords, passwords of
\* encoded states, and passwords with out-of-range fields
CrcCorrectPasswords ==
    { p \in TestPasswords \cup MutatedPasswords \cup NamePasswords :
          IsOk(check_bytes_crc(password_to_bytes(p))) }

InitLastChar ==
    /\ pc = "call"
    /\ arg \in Input("password", CrcCorrectPasswords)
    /\ op = "none"
    /\ result = Pending
    /\ CodecIdle
    /\ GenIdle

DecodeUnchanged ==
    Call("password", "decode",
         [changed |-> arg.val, decoded |-> decode(arg.val)])

DecodeLastChanged ==
    \E c \in Symbols \ { arg.val[20] } :
        LET changed == [arg.val EXCEPT ![20] = c]
        IN  Call("password", "decode_last_changed",
                 [changed |-> changed, decoded |-> decode(changed)])

NextLastChar == DecodeUnchanged \/ DecodeLastChanged

SpecLastChar == InitLastChar /\ [][NextLastChar]_vars

(***************************************************************************)
(* Properties of scenario 1 (SpecEncode).                                  *)
(***************************************************************************)

\* C1: for every GameState that passes validate(), encode returns Ok(p) and
\* decode(p) returns Ok(state.normalize()): every field is recovered, the
\* hero name in its normalized form.
C1_RoundTrip ==
    (pc = "done" /\ IsOk(validated)) =>
        /\ IsOk(encoded)
        /\ IsOk(normalized)
        /\ decoded = [kind |-> "Ok", val |-> normalized.val]

\* a valid state whose name is changed by normalization went round
C1_Witness ==
    /\ pc = "done"
    /\ IsOk(validated)
    /\ IsOk(decoded)
    /\ state.hero_xp = 1234
    /\ state.inventory[8] = 8
    /\ decoded.val.hero_name # state.hero_name

\* C3: encode returns Err(InvalidGameState) for every state that validate()
\* rejects, and never Ok(password).
C3_EncodeRejectsInvalid ==
    (encoded # Pending /\ ~IsOk(validated)) =>
        encoded = [kind |-> "InvalidGameState"]

\* C4: whenever normalize() returns Ok(t), t.validate() returns Ok; and
\* normalize() returns Err(InvalidGameState) for every state that validate()
\* rejects.
C4_NormalizeYieldsValid ==
    normalized # Pending =>
        /\ IsOk(normalized) => IsOk(GameState_validate(normalized.val))
        /\ ~IsOk(validated) => normalized = [kind |-> "InvalidGameState"]

\* the ranges of the fields as the claim lists them
FieldsInRange(s) ==
    /\ s.hero_weapon <= 7
    /\ s.hero_armor <= 7
    /\ s.hero_shield <= 3
    /\ s.herb_count <= 6
    /\ s.key_count <= 6
    /\ \A i \in 1..8 : s.inventory[i] <= 14
    /\ s.salt <= 7

\* C13: GameState::validate() returns Ok exactly when hero_name normalizes
\* and every field is in its range, and Err(InvalidGameState) otherwise.
C13_ValidateIff ==
    validated # Pending =>
        /\ IsOk(validated) <=>
               (IsOk(normalize_hero_name(state.hero_name)) /\ FieldsInRange(state))
        /\ ~IsOk(validated) => validated = invalid_game_state

\* validate() rejected a state whose only fault is hero_shield = 4
C13_Witness ==
    /\ validated = invalid_game_state
    /\ state.hero_shield = 4
    /\ FieldsInRange([state EXCEPT !.hero_shield = 3])
    /\ IsOk(normalize_hero_name(state.hero_name))

(***************************************************************************)
(* Properties of scenario 2 (SpecDecode).                                  *)
(***************************************************************************)
\* the 15-byte buffer of a well-formed input
BufferOf(p) == password_to_bytes(normalize_password(p).val)

\* CRC16(B[1..15])
Crc16Of(bytes) == crc_fold(SubSeq(bytes, 2, 15), 14)

WellFormed(p) == IsOk(normalize_password(p))

\* herb_count, key_count or an inventory slot unpacked from the buffer is out
\* of range
FieldOutOfRange(bytes) ==
    LET s == bytes_to_state(bytes)
    IN  \/ s.herb_count > 6
        \/ s.key_count > 6
        \/ \E i \in 1..8 : s.inventory[i] = 15

\* C2: for every normalized password p that decodes to Ok(s), encode(s)
\* returns Ok(p), the same 20 symbols.
C2_ReencodeIsIdentity ==
    (pc = "done" /\ IsOk(decoded)) =>
        encoded = [kind |-> "Ok", val |-> normalize_password(password).val]

\* a password other than the test vectors was decoded and encoded again
C2_Witness ==
    /\ pc = "done"
    /\ IsOk(decoded)
    /\ IsOk(encoded)
    /\ password \notin TestPasswords
    /\ Len(password) = 20

\* C6: a well-formed password whose buffer B has B[0] different from the low
\* byte of CRC16(B[1..15]) makes decode return CrcMismatch with expect = B[0]
\* and actual = the full 16-bit CRC, also when a field is out of range.
C6_CrcMismatchFirst ==
    (decoded # Pending /\ WellFormed(password)) =>
        LET bytes == BufferOf(password)
            crc16 == Crc16Of(bytes)
        IN  crc16 % 256 # bytes[1] =>
                decoded = [kind |-> "CrcMismatch", expect |-> bytes[1],
                           actual |-> crc16]

\* decode reported a CRC mismatch, with a CRC above 255, for a buffer whose
\* herb_count is out of range as well
C6_Witness ==
    /\ decoded.kind = "CrcMismatch"
    /\ decoded.actual > 255
    /\ bytes_to_state(BufferOf(password)).herb_count > 6

\* C7: for a well-formed password whose stored CRC byte matches, decode
\* returns Err(InvalidGameState) exactly when herb_count > 6, key_count > 6
\* or an inventory slot is 15, and Ok otherwise.
C7_InvalidStateIffOutOfRange ==
    (decoded # Pending /\ WellFormed(password)) =>
        LET bytes == BufferOf(password)
        IN  Crc16Of(bytes) % 256 = bytes[1] =>
                /\ decoded.kind = "InvalidGameState" <=> FieldOutOfRange(bytes)
                /\ decoded.kind \in {"InvalidGameState", "Ok"}

\* a CRC-correct password other than the test vectors was rejected for its
\* key_count
C7_Witness ==
    /\ decoded.kind = "InvalidGameState"
    /\ password \notin TestPasswords
    /\ bytes_to_state(BufferOf(password)).key_count > 6

\* C16: a state that decode returns is valid and normalized: validate()
\* accepts it and normalize() returns it unchanged.
C16_DecodedValidNormalized ==
    (decoded # Pending /\ IsOk(decoded)) =>
        /\ IsOk(GameState_validate(decoded.val))
        /\ GameState_normalize(decoded.val) = [kind |-> "Ok", val |-> decoded.val]
        /\ Len(decoded.val.hero_name) = 4

\* a state whose name holds the voiced mark and a padding space was decoded
C16_Witness ==
    /\ IsOk(decoded)
    /\ password \notin TestPasswords
    /\ \E i \in 1..4 : decoded.val.hero_name[i] = 12443
    /\ decoded.val.hero_name[4] = 32
    /\ decoded.val.herb_count = 6

\* ---- generate ----------------------------------------------------------

\* the pattern without its whitespace
PatternStripped(p) == SelectSeq(p, LAMBDA c : ~is_whitespace(c))

PatternSymbolOk(c) ==
    c \in {QUESTION, FULLWIDTH_QUESTION} \/ password_char_to_cum(c) # None

WrongLength(p) == Len(PatternStripped(p)) # 20

BadSymbol(p) ==
    /\ Len(PatternStripped(p)) = 20
    /\ \E i \in 1..20 : ~PatternSymbolOk(PatternStripped(p)[i])

\* C5: normalize_pattern, validate_pattern and generate return
\* Err(InvalidPattern), and no other error, for every pattern that is
\* invalid, be it by its length or by one of its 20 characters.
C5_InvalidPatternError ==
    (pc = "done" /\ (WrongLength(pattern) \/ BadSymbol(pattern)))
        => /\ normalized = invalid_pattern
           /\ validated = invalid_pattern
           /\ generated = invalid_pattern

Generated == IF IsOk(generated) THEN generated.val ELSE << >>

Returned == pc = "done" /\ IsOk(generated)

\* C8: for a valid pattern generate returns at most n_max passwords, and no
\* password twice.
C8_AtMostNDistinct ==
    Returned =>
        /\ Len(Generated) <= n_max
        /\ \A a, b \in 1..Len(Generated) : a # b => Generated[a] # Generated[b]

\* the cap is reached with passwords of one head pair and of different ones
C8_Witness ==
    /\ Returned
    /\ n_max >= 2
    /\ Len(Generated) = n_max
    /\ \E a, b \in 1..Len(Generated) :
           a # b /\ SubSeq(Generated[a], 1, 2) # SubSeq(Generated[b], 1, 2)

\* C9: every password that generate returns decodes to Ok.
C9_GeneratedDecode ==
    Returned => \A n \in 1..Len(Generated) : IsOk(decode(Generated[n]))

\* several passwords come back for a pattern whose wildcards cover the
\* herb_count and key_count bits
C9_Witness ==
    /\ Returned
    /\ Len(Generated) >= 2
    /\ normalized.val[14] = QUESTION
    /\ normalized.val[15] = QUESTION
    /\ \A n \in 1..Len(Generated) : IsOk(decode(Generated[n]))

\* C10: every password that generate returns holds the symbol of the
\* normalized pattern at each position where that is not '?'.
C10_GeneratedMatchPattern ==
    Returned =>
        \A n \in 1..Len(Generated) : \A i \in 1..20 :
            normalized.val[i] # QUESTION => Generated[n][i] = normalized.val[i]

\* a pattern given with spaces and a fullwidth wildcard yields passwords
\* that differ from one another in a wildcard position only
C10_Witness ==
    /\ Returned
    /\ pattern # normalized.val
    /\ Len(Generated) >= 2
    /\ \E i \in 1..20 : normalized.val[i] # QUESTION
    /\ \E i \in 1..20 :
           normalized.val[i] = QUESTION /\ Generated[1][i] # Generated[2][i]

\* the strings of 20 symbols that agree with the normalized pattern p at
\* every position where p is not '?'
Candidates(p) ==
    LET wild == { i \in 1..20 : p[i] = QUESTION }
    IN  { [i \in 1..20 |-> IF i \in wild THEN a[i] ELSE p[i]] :
              a \in [wild -> Symbols] }

\* enumerate, then keep what decode accepts
MatchAndDecode(p) == { c \in Candidates(p) : IsOk(decode(c)) }

GeneratedSet == { Generated[n] : n \in 1..Len(Generated) }

\* C11: when generate returns fewer than n_max passwords, they are exactly
\* the passwords that match the pattern and that decode accepts.
C11_Exhaustive ==
    (Returned /\ Len(Generated) < n_max) =>
        GeneratedSet = MatchAndDecode(normalized.val)

\* a pattern with a wildcard has two matches, fewer than the cap
C11_Witness ==
    /\ Returned
    /\ Len(Generated) = 2
    /\ n_max > 2
    /\ \E i \in 1..20 : normalized.val[i] = QUESTION
    /\ GeneratedSet = MatchAndDecode(normalized.val)

\* generate_dp is at work: dp holds the levels filled so far
InDp == pc \in {"dp", "restore"}

\* the cell a back-pointer names
TraceCell(t) == << DpTrace_j(t), DpTrace_k(t), DpTrace_l(t) >>

\* the cells of level 18 from which generate_dp_restore starts a search
RestoreStarts ==
    LET sixs_head == SixsHead(HeadPair(cums_head, head))
        crc_expect == BitOr(At(sixs_head, 0), Shl8(At(sixs_head, 1), 6))
    IN  { << cum, crc_expect, l >> :
              cum \in RangeSet(cum_range(At(cums_tail, 17))), l \in 0..1 }
            \cap DOMAIN At(dp, 18)

RECURSIVE ReachesSeed(_, _)
\* every chain of back-pointers from a cell of level i passes through
\* non-empty cells only and ends in the seeded cell of level 0
ReachesSeed(i, cell) ==
    /\ DpCell(dp, i, cell) # <<>>
    /\ i > 0 =>
           \A n \in 1..Len(DpCell(dp, i, cell)) :
               ReachesSeed(i - 1, TraceCell(DpCell(dp, i, cell)[n]))

\* C21: while generate_dp runs, no cell of dp holds more than n_max
\* back-pointers, every back-pointer of a cell of level i + 1 names a
\* non-empty cell of level i, level 0 has the seeded cell alone, and the
\* searches of generate_dp_restore pass through non-empty cells down to it.
C21_DpBackPointers ==
    InDp =>
        /\ \A i \in 0..(Len(dp) - 1) :
               \A cell \in DOMAIN At(dp, i) :
                   /\ Len(At(dp, i)[cell]) \in 1..n_remain
                   /\ i > 0 =>
                          \A n \in 1..Len(At(dp, i)[cell]) :
                              TraceCell(At(dp, i)[cell][n]) \in DOMAIN At(dp, i - 1)
        /\ At(dp, 0) = DpSeed(SixsHead(HeadPair(cums_head, head)))
        /\ Cardinality(DOMAIN At(dp, 0)) = 1
        /\ pc = "restore" => \A cell \in RestoreStarts : ReachesSeed(18, cell)

\* the table is complete, a cell of it is full and has lost a push to the
\* cap, another cell holds several back-pointers, and a search starts
C21_Witness ==
    /\ pc = "restore"
    /\ Len(dp) = 19
    /\ n_remain >= 2
    /\ RestoreStarts # {}
    /\ \E i \in 0..17 :
           LET more == DpLevel(i, At(dp, i), cums_tail, n_remain + 1)
           IN  \E cell \in DOMAIN At(dp, i + 1) :
                   /\ Len(At(dp, i + 1)[cell]) = n_remain
                   /\ Len(more[cell]) > n_remain
    /\ \E i \in 1..18 : \E cell \in DOMAIN At(dp, i) :
           \E n \in 1..Len(At(dp, i)[cell]) : DpTrace_j(At(dp, i)[cell][n]) >= 32

\* generate is in or after its loop over the head pairs
InLoop == pc \in {"head", "dp", "restore"} \/ Returned

\* C22: in and after the loop of generate, n_remain plus the number of
\* buffers gathered is n_max and n_remain has not gone below zero;
\* generate_dp never runs with n_max = 0 nor once n_max buffers are
\* gathered; with n_max = 0 the result is the empty list.
C22_RemainAccounting ==
    /\ InLoop =>
           /\ n_remain + Len(bytess) = n_max
           /\ n_remain \in 0..n_max
    /\ InDp =>
           /\ n_remain >= 1
           /\ Len(bytess) < n_max
    /\ Returned => Len(Generated) = Len(bytess)
    /\ (Returned /\ n_max = 0) => (Generated = <<>> /\ head = 0)

\* the loop was left with the cap reached by buffers of several head
\* pairs, and with head pairs not tried
C22_Witness ==
    /\ Returned
    /\ n_max >= 2
    /\ n_remain = 0
    /\ head >= 2
    /\ head < HeadPairCount(cums_head)
    /\ \E m, n \in 1..Len(bytess) : bytess[m][1] # bytess[n][1]

(***************************************************************************)
(* Properties of scenario 4 (SpecCall).                                    *)
(***************************************************************************)
Called == pc = "done" /\ op # "none"

\* Ok and the four error kinds of Dq1PasswordError
ResultKinds ==
    {"Ok", "InvalidGameState", "InvalidPassword", "CrcMismatch", "InvalidPattern"}

WithoutWhitespace(p) == SelectSeq(p, LAMBDA c : ~is_whitespace(c))

\* 20 characters of the password alphabet once the whitespace is removed
IsPasswordText(p) ==
    /\ Len(WithoutWhitespace(p)) = 20
    /\ \A i \in 1..20 : \E n \in 1..Len(PASSWORD_CHARS) :
           WithoutWhitespace(p)[i] = PASSWORD_CHARS[n]

\* C14: normalize_password(p) returns Ok(q) exactly when p without its
\* whitespace is 20 characters of the password alphabet, q being that
\* string; otherwise it returns Err(InvalidPassword), and so does decode.
C14_NormalizePassword ==
    /\ (Called /\ op = "normalize_password") =>
           IF IsPasswordText(arg.val)
           THEN result = [kind |-> "Ok", val |-> WithoutWhitespace(arg.val)]
           ELSE result = [kind |-> "InvalidPassword"]
    /\ (Called /\ op = "decode" /\ ~IsPasswordText(arg.val)) =>
           result = [kind |-> "InvalidPassword"]

\* a password written with whitespace was normalized to its 20 symbols
C14_Witness ==
    /\ Called
    /\ op = "normalize_password"
    /\ Len(arg.val) > 20
    /\ IsOk(result)
    /\ Len(result.val) = 20
    /\ result.val # arg.val

RECURSIVE Expansion(_)
\* every character of the name replaced by what the normalization map gives
\* for it, a character the map does not hold standing for itself
Expansion(name) ==
    IF name = << >> THEN << >>
    ELSE (IF Head(name) \in DOMAIN NORMALIZE_HERO_NAME_MAP
          THEN NORMALIZE_HERO_NAME_MAP[Head(name)]
          ELSE << Head(name) >>) \o Expansion(Tail(name))

\* the 64 symbols a packed name unpacks to
HeroNameAlphabet == { HERO_NAME_CHARS[n] : n \in 1..Len(HERO_NAME_CHARS) }

PadTo4(cs) == SubSeq(cs \o <<32, 32, 32, 32>>, 1, 4)

\* C15: normalize_hero_name returns Err(InvalidGameState) when the expansion
\* of the name has more than 4 symbols or a symbol outside the hero-name
\* alphabet, and otherwise the expansion padded with spaces to 4 symbols.
C15_NormalizeHeroName ==
    (Called /\ op = "normalize_hero_name") =>
        LET e == Expansion(arg.val)
        IN  IF Len(e) > 4 \/ \E i \in 1..Len(e) : e[i] \notin HeroNameAlphabet
            THEN result = [kind |-> "InvalidGameState"]
            ELSE /\ result = [kind |-> "Ok", val |-> PadTo4(e)]
                 /\ \A i \in 1..4 : result.val[i] \in HeroNameAlphabet

\* a name with a voiced kana came back as its two symbols and padding
C15_Witness ==
    /\ Called
    /\ op = "normalize_hero_name"
    /\ Len(arg.val) = 2
    /\ arg.val[1] = 12364
    /\ IsOk(result)
    /\ Len(Expansion(arg.val)) = 3
    /\ result.val[4] = 32

(***************************************************************************)
(* Properties of scenario 6 (SpecCodec).                                   *)
(***************************************************************************)
\* the 20 six-bit units of a buffer, three bytes giving four units
UnitsOf(bytes) ==
    bytes_to_sixs(SubSeq(bytes, 1, 3)) \o bytes_to_sixs(SubSeq(bytes, 4, 6))
        \o bytes_to_sixs(SubSeq(bytes, 7, 9)) \o bytes_to_sixs(SubSeq(bytes, 10, 12))
        \o bytes_to_sixs(SubSeq(bytes, 13, 15))

\* the position of a symbol in the password alphabet
IndexOf(c) == CHOOSE n \in 0..63 : PASSWORD_CHARS[n + 1] = c

\* C[i] = (C[i-1] + S[i] + 4) mod 64 with C[-1] = 0, for password p and
\* buffer bytes
Cumulative(p, bytes) ==
    \A i \in 1..20 :
        IndexOf(p[i]) =
            ((IF i = 1 THEN 0 ELSE IndexOf(p[i - 1])) + UnitsOf(bytes)[i] + 4) % 64

\* C18: bytes_to_password and password_to_bytes are inverse to each other,
\* on every buffer and on every string of 20 symbols, and the symbols are
\* the cumulative sums of the units of the buffer.
C18_CodecBijection ==
    /\ (Called /\ op = "bytes_to_password") =>
           /\ result.back = arg.val
           /\ Len(result.there) = 20
           /\ Cumulative(result.there, arg.val)
    /\ (Called /\ op = "password_to_bytes") =>
           /\ result.back = arg.val
           /\ Len(result.there) = 15
           /\ \A i \in 1..15 : result.there[i] \in U8
           /\ Cumulative(arg.val, result.there)

\* a buffer whose stored CRC byte is wrong went to a password and back
C18_Witness ==
    /\ Called
    /\ op = "bytes_to_password"
    /\ \A i \in 1..15 : arg.val[i] = 255
    /\ Crc16Of(arg.val) % 256 # arg.val[1]
    /\ result.back = arg.val

(***************************************************************************)
(* Properties of scenario 5 (SpecCrc).                                     *)
(***************************************************************************)
\* C17: crc_update on a chunk of a bits and then on a chunk of b bits gives
\* what crc_update gives on the a + b bits (hi << b) | lo, for a + b <= 8.
C17_CrcUpdateComposes ==
    (Called /\ op = "crc_update") =>
        /\ result.split = result.joined
        /\ result.joined \in 0..65535

\* two chunks of 3 and 5 bits, both non-zero, on a crc with its top bit set
C17_Witness ==
    /\ Called
    /\ op = "crc_update"
    /\ arg.val[1] = 32768
    /\ arg.val[2] = 3
    /\ arg.val[3] = 5
    /\ arg.val[4] = 5
    /\ arg.val[5] = 19
    /\ result.split = result.joined
    /\ result.split # 0

\* C19: the CRC of three bytes folded from 0 by crc_update is the XOR of the
\* entries of rows 14..17 of crc16_table_tail for the four six-bit units of
\* the bytes.
C19_TableTailIsCrc ==
    (Called /\ op = "crc16_table_tail") =>
        /\ result.folded = result.table
        /\ result.folded = crc_update(crc_update(crc_update(0, arg.val[1], 8),
                                                  arg.val[2], 8), arg.val[3], 8)

\* the three bytes of the crate's own test, whose four units are all non-zero
C19_Witness ==
    /\ Called
    /\ op = "crc16_table_tail"
    /\ arg.val = << 69, 103, 137 >>
    /\ \A i \in 1..4 : bytes_to_sixs(arg.val)[i] # 0
    /\ result.folded = result.table
    /\ result.table # 0

\* C20: for 20 six-bit units packed by sixs_to_bytes, the low byte of the
\* CRC-16 of bytes 1..14 is the entry of crc8_table_head for the upper four
\* bits of unit 1 XORed with the entries of crc8_table_tail for units 2..19;
\* so the terminal test of generate_dp_restore (crc = crc_expect) holds
\* exactly when byte 0 equals the low CRC byte.
C20_DpCrcIsLowCrcByte ==
    (Called /\ op = "crc8_tables") =>
        /\ result.dp_crc = result.crc16 % 256
        /\ result.crc_expect = result.bytes[1]
        /\ (result.dp_crc = result.crc_expect)
               <=> (result.bytes[1] = result.crc16 % 256)

\* the units of a password that decodes: head and tail units are not all
\* zero and the terminal test holds
C20_Witness ==
    /\ Called
    /\ op = "crc8_tables"
    /\ Shr(At(arg.val, 1), 2) # 0
    /\ \E i \in 2..19 : At(arg.val, i) # 0
    /\ result.dp_crc # 0
    /\ result.dp_crc = result.crc_expect
    /\ IsOk(check_bytes_crc(result.bytes))

(***************************************************************************)
(* Properties of scenario 7 (SpecLastChar).                                *)
(***************************************************************************)
\* C23: a password whose stored CRC byte matches, with its last character
\* replaced by any other symbol, makes decode return CrcMismatch, never Ok
\* and never InvalidGameState; the password as it is does not.
C23_LastCharBreaksCrc ==
    /\ (Called /\ op = "decode_last_changed") =>
           /\ result.changed # arg.val
           /\ SubSeq(result.changed, 1, 19) = SubSeq(arg.val, 1, 19)
           /\ IsOk(check_bytes_crc(BufferOf(arg.val)))
           /\ result.decoded.kind = "CrcMismatch"
           /\ result.decoded.expect = BufferOf(arg.val)[1]
    /\ (Called /\ op = "decode") =>
           result.decoded.kind \in {"Ok", "InvalidGameState"}

\* the last character of a password that decodes to a state, other than
\* the test passwords, was changed, and the fields of the changed buffer
\* are in range
C23_Witness ==
    /\ Called
    /\ op = "decode_last_changed"
    /\ arg.val \notin TestPasswords
    /\ IsOk(decode(arg.val))
    /\ ~FieldOutOfRange(BufferOf(result.changed))
    /\ result.decoded.kind = "CrcMismatch"

====
